---- MODULE Spec2Model ----
(***************************************************************************)
(* s3v: the version index (src/s3v/versions.py) and the loop that fills it *)
(* (src/s3v/aws.py, sync_versions).                                        *)
(*                                                                         *)
(* Representation                                                          *)
(*   - a Python str used as version id / specifier is a TLA+ string;       *)
(*   - an object key is a sequence of one-character strings, so that       *)
(*     str.startswith / str.endswith can be computed;                      *)
(*   - a Python dict keyed by version id is the sequence of its values in  *)
(*     insertion order (dicts keep insertion order, overwriting a key      *)
(*     keeps its position);                                                *)
(*   - bucket_keys is a function whose DOMAIN is the set of keys present;  *)
(*   - None is <<>> and a value x that may be None is <<x>>;               *)
(*   - a datetime is [sec, us, tz]: wall-clock seconds since               *)
(*     2024-01-01 00:00:00, microseconds, and tz = <<>> (naive) or         *)
(*     <<utcoffset in seconds>> (aware).                                   *)
(***************************************************************************)
EXTENDS Integers, Sequences, FiniteSets, TLC

VARIABLES vi, cache, fresh, result, pc, calls

vars == <<vi, cache, fresh, result, pc, calls>>

\* ---------------------------------------------------------------- bounds
MaxSec == 1
MaxVersions == 3
MaxMarkers == 2
MaxCalls == 3

\* ------------------------------------------------------- Python values
None == <<>>

Some(x) == <<x>>

\* datetime(...) with tzinfo=timezone.utc
UtcTime(s, u) == [sec |-> s, us |-> u, tz |-> <<0>>]

\* naive datetime, as dateparser returns for a string without a zone
NaiveTime(s, u) == [sec |-> s, us |-> u, tz |-> None]

\* aware datetime with an arbitrary fixed offset
AwareTime(s, u, off) == [sec |-> s, us |-> u, tz |-> <<off>>]

\* datetime.__lt__ on two aware values: compares the instants, i.e. wall
\* clock minus utcoffset, then microseconds
DtLess(a, b) ==
    \/ a.sec - a.tz[1] < b.sec - b.tz[1]
    \/ a.sec - a.tz[1] = b.sec - b.tz[1] /\ a.us < b.us

\* datetime.__eq__ on two aware values
DtEq(a, b) == a.sec - a.tz[1] = b.sec - b.tz[1] /\ a.us = b.us

\* dt.replace(tzinfo=timezone.utc) when dt.tzinfo is None
AsUtc(dt) == IF dt.tz = None THEN [dt EXCEPT !.tz = <<0>>] ELSE dt

\* ------------------------------------------------- strings of the model
Keywords == {"latest", "last", "newest", "oldest", "first", "previous", "prev", "p"}

\* version ids the object store may hand out; the index takes any string,
\* so some of them are at the same time a keyword, an integer, a date
VersionIds == {"v1", "p", "0", "2024-01-01 00:00:02"}

MarkerIds == {"m1", "m2"}

IntStrings == {"0", "-1", "-3", "99", "100", "1484823450"}

DateStrings ==
    {"2024-01-01 00:00:00", "2024-01-01 00:00:01", "2024-01-01 00:00:01.5",
     "2024-01-01 00:00:02", "2024-01-01 01:00:01.5+01:00"}

Specifiers == Keywords \cup VersionIds \cup IntStrings \cup DateStrings \cup {"zzz"}

\* int(verspec): <<n>>, or None where Python raises ValueError
int(s) ==
    CASE s = "0" -> <<0>>
      [] s = "-1" -> <<0 - 1>>
      [] s = "-3" -> <<0 - 3>>
      [] s = "99" -> <<99>>
      [] s = "100" -> <<100>>
      [] s = "1484823450" -> <<1484823450>>
      [] OTHER -> None

\* dateparser.parse(verspec): the set of values the library may return for
\* the string, each None or <<datetime>>.  dateparser is a library, not
\* part of the repository.  Its result is a single value for a full date
\* and time (naive without a zone, aware with one), for ten digits (a Unix
\* timestamp, here 2017-01-19), and for text in which it finds no date part
\* ("0" is no month, day or year; three digits are none either; letters
\* that are no date words).  A string of one or two digits is a date part
\* for its absolute parser, the rest of the date being taken from the
\* current date: "99" is the year 1999, "-1" is month 1 of the current year,
\* which lies before or after the versions.  That reading depends on the
\* library's version and settings, so None is among the values for them.
dateparser_parse(s) ==
    CASE s = "2024-01-01 00:00:00" -> {Some(NaiveTime(0, 0))}
      [] s = "2024-01-01 00:00:01" -> {Some(NaiveTime(1, 0))}
      [] s = "2024-01-01 00:00:01.5" -> {Some(NaiveTime(1, 500000))}
      [] s = "2024-01-01 00:00:02" -> {Some(NaiveTime(2, 0))}
      [] s = "2024-01-01 01:00:01.5+01:00" -> {Some(AwareTime(3601, 500000, 3600))}
      [] s = "1484823450" -> {Some(NaiveTime(0 - 219243750, 0))}
      [] s = "99" -> {None, Some(NaiveTime(0 - 788918400, 0))}
      [] s = "-1" -> {None, Some(NaiveTime(0, 0)), Some(NaiveTime(31622400, 0))}
      [] OTHER -> {None}

\* ------------------------------------------------------ VersionedObject
\* VersionedObject.__init__
NewVersionedObject(k) == [key |-> k, versions |-> <<>>, delete_markers |-> <<>>]

\* a list appended to, in place of a dict
DictSet_Append(d, id, rec) == Append(d, rec)

\* d[version_id] = record on an insertion-ordered dict
DictSet(d, id, rec) ==
    IF \E i \in 1..Len(d) : d[i].VersionId = id
    THEN [i \in 1..Len(d) |-> IF d[i].VersionId = id THEN rec ELSE d[i]]
    ELSE Append(d, rec)

\* verspec in self.versions
DictHas(d, id) == \E i \in 1..Len(d) : d[i].VersionId = id

add_version(vo, version_record) ==
    [vo EXCEPT !.versions = DictSet(vo.versions, version_record.VersionId, version_record)]

add_delete_marker(vo, delete_marker_record) ==
    [vo EXCEPT !.delete_markers =
        DictSet(vo.delete_markers, delete_marker_record.VersionId, delete_marker_record)]

\* any marker taken for a current one
is_deleted_AnyMarker(vo) == vo.delete_markers # <<>>

\* dm.get("IsLatest", False) for some marker
is_deleted(vo) == \E i \in 1..Len(vo.delete_markers) : vo.delete_markers[i].IsLatest

\* one step of the stable sort: x goes after every element whose key is
\* not greater than its own
SortInsert(srt, x) ==
    LET after == {i \in 1..Len(srt) : DtLess(x.LastModified, srt[i].LastModified)}
        pos == IF after = {} THEN Len(srt) + 1
               ELSE CHOOSE i \in after : \A j \in after : i <= j
    IN  SubSeq(srt, 1, pos - 1) \o <<x>> \o SubSeq(srt, pos, Len(srt))

RECURSIVE SortedByLastModified(_)
\* sorted(values, key=lambda v: v["LastModified"]): stable, ascending
SortedByLastModified(d) ==
    IF d = <<>> THEN <<>>
    ELSE SortInsert(SortedByLastModified(SubSeq(d, 1, Len(d) - 1)), d[Len(d)])

sorted_versions(vo) == SortedByLastModified(vo.versions)

\* VersionedObject.get_latest_version: max(values, key=LastModified) keeps
\* the first of the values it finds greatest, in the order of the dict
get_latest_version(vo) ==
    LET v == vo.versions IN
    IF v = <<>> THEN None
    ELSE LET i == CHOOSE i \in 1..Len(v) :
                    /\ \A j \in 1..Len(v) : ~DtLess(v[i].LastModified, v[j].LastModified)
                    /\ \A j \in 1..(i - 1) : DtLess(v[j].LastModified, v[i].LastModified)
         IN  <<v[i]>>

\* vers[verpos] on a Python list: <<element>>, or None for IndexError
ListIndex(vers, verpos) ==
    IF 0 <= verpos /\ verpos < Len(vers) THEN <<vers[verpos + 1]>>
    ELSE IF verpos < 0 /\ 0 - Len(vers) <= verpos THEN <<vers[Len(vers) + verpos + 1]>>
    ELSE None

\* what a call gives back: a returned value (None or <<version id>>) or a
\* raised exception (<<class, message>>)
Return(v) == [ret |-> v, exc |-> None]

Raise(cls, msg) == [ret |-> None, exc |-> <<cls, msg>>]

OutOfRangeMsg == "Version position is out of range"

InvalidSpecifierMsg == "Invalid version specifier"

KeyNotFoundMsg == "Key not found in bucket"

\* the keywords tested before the version ids
IsVersionId_AfterKeywords(vo, verspec) ==
    verspec \notin Keywords /\ DictHas(vo.versions, verspec)

\* line 117: verspec in self.versions
IsVersionId(vo, verspec) == DictHas(vo.versions, verspec)

\* vers[0] taken for the newest
LatestOf_First(vers) ==
    IF vers # <<>> THEN Return(<<vers[1].VersionId>>) ELSE Return(None)

\* line 125: vers[-1]["VersionId"] if vers else None
LatestOf(vers) ==
    IF vers # <<>> THEN Return(<<vers[Len(vers)].VersionId>>) ELSE Return(None)

\* lines 128-130
OldestOf(vo, vers) ==
    IF vo.versions = <<>> THEN Return(None) ELSE Return(<<vers[1].VersionId>>)

\* vers[-2] without the length test: a single version is found by the
\* negative index, no version raises
PreviousOf_NoLengthTest(vers) ==
    IF Len(vers) = 0 THEN Raise("IndexError", "list index out of range")
    ELSE IF Len(vers) = 1 THEN Return(<<vers[1].VersionId>>)
    ELSE Return(<<vers[Len(vers) - 1].VersionId>>)

\* lines 132-134
PreviousOf(vers) ==
    IF Len(vers) < 2 THEN Return(None) ELSE Return(<<vers[Len(vers) - 1].VersionId>>)

\* <= in place of <
OlderThan_OrEqual(vers, dt) ==
    LET d == AsUtc(dt)
        older_versions ==
            SelectSeq(vers, LAMBDA v : DtLess(v.LastModified, d) \/ DtEq(v.LastModified, d))
    IN  IF older_versions # <<>>
        THEN Return(<<older_versions[Len(older_versions)].VersionId>>)
        ELSE Return(None)

\* lines 139-148: the latest version older than the parsed datetime dt
OlderThan(vers, dt) ==
    LET d == AsUtc(dt)
        older_versions == SelectSeq(vers, LAMBDA v : DtLess(v.LastModified, d))
    IN  IF older_versions # <<>>
        THEN Return(<<older_versions[Len(older_versions)].VersionId>>)
        ELSE Return(None)

\* a specifier that is no integer answered with the newest version
ByPosition_DefaultLatest(vers, verspec) ==
    IF int(verspec) = None
    THEN (IF vers # <<>> THEN Return(<<vers[Len(vers)].VersionId>>) ELSE Return(None))
    ELSE IF ListIndex(vers, int(verspec)[1]) = None THEN Raise("ValueError", OutOfRangeMsg)
    ELSE Return(<<ListIndex(vers, int(verspec)[1])[1].VersionId>>)

\* lines 150-158: int(verspec) raising ValueError gives the invalid
\* specifier error, vers[verpos] raising IndexError the out of range error
ByPosition(vers, verspec) ==
    IF int(verspec) = None THEN Raise("ValueError", InvalidSpecifierMsg)
    ELSE IF ListIndex(vers, int(verspec)[1]) = None THEN Raise("ValueError", OutOfRangeMsg)
    ELSE Return(<<ListIndex(vers, int(verspec)[1])[1].VersionId>>)

\* VersionedObject.translate_version; dt is what dateparser.parse(verspec)
\* returns (only looked at in the last branch)
VersionedObject_translate_version(vo, verspec, dt) ==
    LET vers == sorted_versions(vo) IN
    IF IsVersionId(vo, verspec) THEN Return(<<verspec>>)
    ELSE IF verspec \in {"latest", "last", "newest"} THEN LatestOf(vers)
    ELSE IF verspec \in {"oldest", "first"} THEN OldestOf(vo, vers)
    ELSE IF verspec \in {"previous", "prev", "p"} THEN PreviousOf(vers)
    ELSE IF dt # None THEN OlderThan(vers, dt[1])
    ELSE ByPosition(vers, verspec)

\* -------------------------------------------------------- VersionsIndex
\* VersionsIndex.__init__: bucket_keys = dict()
EmptyIndex == [k \in {} |-> NewVersionedObject(k)]

\* VersionsIndex.get: the object, or None
IndexGet(idx, key) == IF key \in DOMAIN idx THEN <<idx[key]>> ELSE None

\* VersionsIndex.__setitem__
IndexSet(idx, key, vo) == [k \in DOMAIN idx \cup {key} |-> IF k = key THEN vo ELSE idx[k]]

\* "not vo" also true of an object without versions
VersionsIndex_translate_version_EmptyIsMissing(idx, key, verspec, dt) ==
    LET vo == IndexGet(idx, key) IN
    IF vo = None \/ vo[1].versions = <<>> THEN Raise("ValueError", KeyNotFoundMsg)
    ELSE VersionedObject_translate_version(vo[1], verspec, dt)

\* VersionsIndex.translate_version: a VersionedObject is always truthy, so
\* "not vo" holds exactly when get returned None
VersionsIndex_translate_version(idx, key, verspec, dt) ==
    LET vo == IndexGet(idx, key) IN
    IF vo = None THEN Raise("ValueError", KeyNotFoundMsg)
    ELSE VersionedObject_translate_version(vo[1], verspec, dt)

\* str.endswith(suffix), strings being sequences of characters
endswith(str, suffix) ==
    Len(str) >= Len(suffix)
    /\ SubSeq(str, Len(str) - Len(suffix) + 1, Len(str)) = suffix

\* str.startswith(prefix)
startswith(str, prefix) ==
    Len(str) >= Len(prefix) /\ SubSeq(str, 1, Len(prefix)) = prefix

\* the name is the prefix as given
has_directory_NoSlash(idx, dirname) ==
    \E key \in DOMAIN idx : startswith(key, dirname)

\* VersionsIndex.has_directory: "/" is appended to a name that does not end
\* with it, and the keys are searched for the prefix
has_directory(idx, dirname) ==
    LET prefix == IF ~endswith(dirname, <<"/">>) THEN dirname \o <<"/">> ELSE dirname
    IN  \E key \in DOMAIN idx : startswith(key, prefix)

\* ------------------------------------------------ records from the store
RECURSIVE LStrip(_, _)
LStrip(str, ch) ==
    IF str # <<>> /\ str[1] = ch THEN LStrip(Tail(str), ch) ELSE str

RECURSIVE RStrip(_, _)
RStrip(str, ch) ==
    IF str # <<>> /\ str[Len(str)] = ch THEN RStrip(SubSeq(str, 1, Len(str) - 1), ch) ELSE str

\* str.strip('"')
Strip(str, ch) == RStrip(LStrip(str, ch), ch)

\* the ETag as list_object_versions returns it, in double quotes
RawETag == <<"\"", "e", "7", "\"">>

\* one element of page["Versions"]
RawVersion(k, id, lm, size, latest) ==
    [Key |-> k, VersionId |-> id, LastModified |-> lm, Size |-> size,
     ETag |-> RawETag, IsLatest |-> latest]

\* one element of page["DeleteMarkers"]
RawMarker(k, id, lm, latest) ==
    [Key |-> k, VersionId |-> id, LastModified |-> lm, IsLatest |-> latest]

\* ---------------------------------------------------------- persistence
\* the timestamp written to the second
isoformat_Seconds(dt) == [sec |-> dt.sec, frac |-> None, off |-> dt.tz]

\* datetime.isoformat(): "YYYY-MM-DDTHH:MM:SS", then ".ffffff" only when
\* microsecond is not 0, then "+HH:MM" only when the value is aware.  The
\* string is kept as its three parts.
isoformat(dt) ==
    [sec |-> dt.sec,
     frac |-> IF dt.us = 0 THEN None ELSE <<dt.us>>,
     off |-> dt.tz]

\* datetime.fromisoformat()
fromisoformat(str) ==
    [sec |-> str.sec,
     us |-> IF str.frac = None THEN 0 ELSE str.frac[1],
     tz |-> str.off]

serialize_version(version_record) ==
    [version_record EXCEPT !.LastModified = isoformat(@)]

unserialize_version(version_data) ==
    [version_data EXCEPT !.LastModified = fromisoformat(@)]

\* VersionedObject.serialize
serialize(vo) ==
    [versions |-> [i \in 1..Len(vo.versions) |-> serialize_version(vo.versions[i])],
     delete_markers |->
        [i \in 1..Len(vo.delete_markers) |-> serialize_version(vo.delete_markers[i])]]

\* the document VersionsIndex.save dumps: key -> serialized object
SavedDocument(idx) == [k \in DOMAIN idx |-> serialize(idx[k])]

RECURSIVE LoadVersions(_, _)
\* for version_record in vo_data["versions"]: vo.add_version(unserialize_version(...))
LoadVersions(vo, records) ==
    IF records = <<>> THEN vo
    ELSE LoadVersions(add_version(vo, unserialize_version(Head(records))), Tail(records))

RECURSIVE LoadDeleteMarkers(_, _)
LoadDeleteMarkers(vo, records) ==
    IF records = <<>> THEN vo
    ELSE LoadDeleteMarkers(add_delete_marker(vo, unserialize_version(Head(records))),
                           Tail(records))

\* VersionsIndex.load on index idx with the cache file holding `file`
\* (None: no file)
load(idx, file) ==
    IF file = None THEN idx
    ELSE LET raw_data == file[1] IN
         [k \in DOMAIN idx \cup DOMAIN raw_data |->
            IF k \in DOMAIN raw_data
            THEN LoadDeleteMarkers(
                    LoadVersions(NewVersionedObject(k), raw_data[k].versions),
                    raw_data[k].delete_markers)
            ELSE idx[k]]

\* the cache file is None (absent), <<document>> when a dump ran to its end,
\* or <<document, n>> when the dump stopped with n entries of the document
\* written and the rest of the text missing.
\* json.load(f): the document of a whole text, JSONDecodeError on a cut one
json_load(file) ==
    IF Len(file) = 1 THEN Return(file[1]) ELSE Raise("JSONDecodeError", "Expecting value")

\* ------------------------------------------------------- inputs, bounded
KeyA == <<"a">>

KeyDB == <<"d", "/", "b">>

KeyMissing == <<"d">>

\* keys the store lists, and with KeyMissing a key it never lists
Keys == {KeyA, KeyDB}

QueryKeys == Keys \cup {KeyMissing}

\* LastModified values of the store: aware, UTC
VersionTimes == {UtcTime(s, 0) : s \in 1..MaxSec} \cup {UtcTime(1, 500000)}

MarkerTimes == {UtcTime(2, 0)}

\* the listing of KeyA is varied; KeyDB has at most the one version
VersionInputs ==
    {RawVersion(KeyA, id, lm, 10, FALSE) : id \in VersionIds, lm \in VersionTimes}
    \cup {RawVersion(KeyDB, "v1", UtcTime(2, 0), 20, TRUE)}

MarkerInputs ==
    {RawMarker(KeyA, "m1", lm, latest) : lm \in MarkerTimes, latest \in BOOLEAN}

\* the listings of the save/load runs
VersionInputsRT ==
    {RawVersion(KeyA, id, lm, 10, FALSE) :
        id \in {"v1", "p"}, lm \in {UtcTime(1, 0), UtcTime(1, 500000)}}
    \cup {RawVersion(KeyDB, "v1", lm, 20, TRUE) : lm \in {UtcTime(s, 0) : s \in 1..MaxSec}}

MarkerInputsRT ==
    {RawMarker(KeyA, id, lm, latest) : id \in MarkerIds, lm \in MarkerTimes, latest \in BOOLEAN}
    \cup {RawMarker(KeyDB, "m1", UtcTime(1, 500000), TRUE)}

\* the keys of the directory runs: KeyDB, and keys that share its first
\* characters with and without the separator
DirKeys ==
    {KeyA, KeyDB, <<"d">>, <<"d", "b">>, <<"/", "x">>, <<"d", "/", "/", "b">>}

\* the names asked for: the empty name, names with and without a trailing "/"
DirNames ==
    {<<>>, <<"/">>, <<"a">>, <<"d">>, <<"d", "/">>, <<"d", "/", "b">>, <<"x">>}

VersionInputsDir == {RawVersion(k, "v1", UtcTime(1, 0), 10, TRUE) : k \in DirKeys}

\* the listings of the runs whose save may fail
VersionInputsSv ==
    {RawVersion(KeyA, id, UtcTime(1, 0), 10, FALSE) : id \in {"v1", "p"}}
    \cup {RawVersion(KeyDB, "v1", UtcTime(2, 0), 20, TRUE)}

\* a record of the store without one of its fields
Without(rec, field) == [f \in DOMAIN rec \ {field} |-> rec[f]]

\* listings with records that lack VersionId or LastModified
VersionInputsMal ==
    LET whole == RawVersion(KeyA, "v1", UtcTime(1, 0), 10, FALSE)
        other == RawVersion(KeyA, "p", UtcTime(1, 500000), 10, TRUE)
    IN  {whole, Without(other, "LastModified"), Without(other, "VersionId"),
         RawVersion(KeyDB, "v1", UtcTime(2, 0), 20, TRUE)}

MarkerInputsMal ==
    LET whole == RawMarker(KeyA, "m1", UtcTime(2, 0), FALSE)
        other == RawMarker(KeyA, "m2", UtcTime(2, 0), TRUE)
    IN  {whole, Without(other, "LastModified"), Without(other, "VersionId")}

\* ---------------------------------------------------------------- state
\* vi       the VersionsIndex sync_versions builds (bucket_keys)
\* cache    the bucket's cache file: None, <<document>>, or <<document, n>>
\*          for a text cut by a save that raised
\* fresh    the index of an upload_to_s3 run: None before it has called
\*          load(), <<bucket_keys>> after
\* result   what the command's call returned or raised
\* pc       "sync" in the loop of sync_versions, "ready" once it has saved
\*          and returned, "done" when the command has made its query,
\*          "failed" when an exception has ended sync_versions
\* calls    the add_version / add_delete_marker calls made so far, in order
\*          (a history kept for the properties, not program state)
NoResult == [op |-> "none", key |-> <<>>, spec |-> "", dt |-> None, ret |-> None, exc |-> None]

Init ==
    /\ vi = EmptyIndex
    /\ cache = None
    /\ fresh = None
    /\ result = NoResult
    /\ pc = "sync"
    /\ calls = <<>>

\* version['ETag'] = version['ETag'].strip('"')
Stripped(version) == [version EXCEPT !.ETag = Strip(version.ETag, "\"")]

\* sync_versions, one version of a page: strip the ETag, route the record
\* to the key's object (created when the key is new), store the object
SyncVersion(version) ==
    LET v == Stripped(version)
        key == v.Key
        vo == IF key \in DOMAIN vi THEN vi[key] ELSE NewVersionedObject(key)
    IN  /\ pc = "sync"
        /\ vi' = IndexSet(vi, key, add_version(vo, v))
        /\ UNCHANGED <<cache, fresh, result, pc>>

\* sync_versions, one delete marker of a page
SyncDeleteMarker(marker) ==
    LET key == marker.Key
        vo == IF key \in DOMAIN vi THEN vi[key] ELSE NewVersionedObject(key)
    IN  /\ pc = "sync"
        /\ vi' = IndexSet(vi, key, add_delete_marker(vo, marker))
        /\ UNCHANGED <<cache, fresh, result, pc>>

\* sync_versions after the last page: vi.save(), then the index is returned
\* to the command
Save ==
    /\ pc = "sync"
    /\ cache' = <<SavedDocument(vi)>>
    /\ pc' = "ready"
    /\ UNCHANGED <<vi, fresh, result, calls>>

\* vi.translate_version(key, version_id) as delete_from_s3, download_from_s3
\* and recover_object_version call it on the index sync_versions returned
Translate(key, verspec) ==
    \E dt \in dateparser_parse(verspec) :
        LET out == VersionsIndex_translate_version(vi, key, verspec, dt) IN
        /\ pc = "ready"
        /\ result' = [op |-> "translate", key |-> key, spec |-> verspec, dt |-> dt,
                      ret |-> out.ret, exc |-> out.exc]
        /\ pc' = "done"
        /\ UNCHANGED <<vi, cache, fresh, calls>>

\* list_objects on an exact key: ls_versions asks is_deleted() for the
\* "[deleted]" flag of the first line
ListObject(key) ==
    /\ pc = "ready"
    /\ key \in DOMAIN vi
    /\ result' = [op |-> "is_deleted", key |-> key, spec |-> "", dt |-> None,
                  ret |-> <<is_deleted(vi[key])>>, exc |-> None]
    /\ pc' = "done"
    /\ UNCHANGED <<vi, cache, fresh, calls>>

\* upload_to_s3: vi = VersionsIndex(bucket); vi.load()
Load ==
    /\ fresh' = <<load(EmptyIndex, cache)>>
    /\ UNCHANGED <<vi, cache, result, pc, calls>>

\* upload_to_s3 up to its question: vi = VersionsIndex(bucket); vi.load();
\* vi.has_directory(name)
HasDirectory(name) ==
    /\ pc = "ready"
    /\ fresh' = <<load(EmptyIndex, cache)>>
    /\ result' = [op |-> "has_directory", key |-> name, spec |-> "", dt |-> None,
                  ret |-> <<has_directory(load(EmptyIndex, cache), name)>>, exc |-> None]
    /\ pc' = "done"
    /\ UNCHANGED <<vi, cache, calls>>

\* vi.save() that raises: open(cach_file, "w") has emptied the file, and
\* json.dump stops (an entry does not serialize, or a write fails) with n
\* entries of the document in the file; the exception ends sync_versions
SaveFails(n) ==
    /\ pc = "sync"
    /\ n \in 0..Cardinality(DOMAIN vi)
    /\ cache' = <<SavedDocument(vi), n>>
    /\ pc' = "failed"
    /\ UNCHANGED <<vi, fresh, result, calls>>

\* the next command: sync_versions starts from vi = VersionsIndex(bucket)
StartSync ==
    /\ pc \in {"ready", "done", "failed"}
    /\ vi' = EmptyIndex
    /\ result' = NoResult
    /\ pc' = "sync"
    /\ UNCHANGED <<cache, fresh, calls>>

\* upload_to_s3: vi = VersionsIndex(bucket); vi.load(), on whatever the file
\* holds; an exception of json.load leaves the command without an index
LoadFile ==
    /\ pc # "sync"
    /\ IF cache = None
       THEN /\ fresh' = <<EmptyIndex>>
            /\ result' = [NoResult EXCEPT !.op = "load"]
       ELSE IF json_load(cache).exc # None
       THEN /\ fresh' = None
            /\ result' = [NoResult EXCEPT !.op = "load", !.exc = json_load(cache).exc]
       ELSE /\ fresh' = <<load(EmptyIndex, cache)>>
            /\ result' = [NoResult EXCEPT !.op = "load"]
    /\ UNCHANGED <<vi, cache, pc, calls>>

\* sync_versions on a record without VersionId: add_version (or
\* add_delete_marker) raises KeyError at version_record["VersionId"], before
\* anything is stored, and the exception ends sync_versions
SyncRaises(op, record) ==
    /\ pc = "sync"
    /\ "VersionId" \notin DOMAIN record
    /\ result' = [NoResult EXCEPT !.op = op, !.key = record.Key,
                                  !.exc = <<"KeyError", "VersionId">>]
    /\ pc' = "failed"
    /\ UNCHANGED <<vi, cache, fresh>>

\* every stored record has the LastModified that serialize_version reads
Serializable(idx) ==
    \A k \in DOMAIN idx :
        /\ \A i \in 1..Len(idx[k].versions) : "LastModified" \in DOMAIN idx[k].versions[i]
        /\ \A i \in 1..Len(idx[k].delete_markers) :
              "LastModified" \in DOMAIN idx[k].delete_markers[i]

\* vi.save() on an index with a record without LastModified: the file is
\* opened for writing, then serialize_version raises KeyError before
\* json.dump has anything to write
SaveKeyError ==
    /\ pc = "sync"
    /\ ~Serializable(vi)
    /\ cache' = <<SavedDocument(EmptyIndex), 0>>
    /\ result' = [NoResult EXCEPT !.op = "save", !.exc = <<"KeyError", "LastModified">>]
    /\ pc' = "failed"
    /\ UNCHANGED <<vi, fresh, calls>>

\* vo.sorted_versions() on the object of a key, as translate_version calls it
SortedVersions(key) ==
    /\ pc = "ready"
    /\ key \in DOMAIN vi
    /\ result' = [NoResult EXCEPT !.op = "sorted_versions", !.key = key,
                                  !.ret = <<sorted_versions(vi[key])>>]
    /\ pc' = "done"
    /\ UNCHANGED <<vi, cache, fresh, calls>>

\* list_objects on a prefix: ls_1line of the key asks get_latest_version()
\* for the record whose time and size the line shows
GetLatestVersion(key) ==
    /\ pc = "ready"
    /\ key \in DOMAIN vi
    /\ result' = [NoResult EXCEPT !.op = "get_latest_version", !.key = key,
                                  !.ret = get_latest_version(vi[key])]
    /\ pc' = "done"
    /\ UNCHANGED <<vi, cache, fresh, calls>>

NumVersions(k) == IF k \in DOMAIN vi THEN Len(vi[k].versions) ELSE 0

NumMarkers(k) == IF k \in DOMAIN vi THEN Len(vi[k].delete_markers) ELSE 0

HasVersion(k, id) ==
    k \in DOMAIN vi /\ \E i \in 1..Len(vi[k].versions) : vi[k].versions[i].VersionId = id

HasMarker(k, id) ==
    k \in DOMAIN vi
    /\ \E i \in 1..Len(vi[k].delete_markers) : vi[k].delete_markers[i].VersionId = id

NextSyncVersion ==
    \E v \in VersionInputs :
        /\ NumVersions(v.Key) < MaxVersions \/ HasVersion(v.Key, v.VersionId)
        /\ SyncVersion(v)
        /\ UNCHANGED calls

NextSyncDeleteMarker ==
    \E m \in MarkerInputs :
        /\ NumMarkers(m.Key) < MaxMarkers \/ HasMarker(m.Key, m.VersionId)
        /\ SyncDeleteMarker(m)
        /\ UNCHANGED calls

NextTranslate == \E k \in QueryKeys, s \in Specifiers : Translate(k, s)

NextListObject == \E k \in Keys : ListObject(k)

\* one command that makes a query: sync, save, translate or list
Next == NextSyncVersion \/ NextSyncDeleteMarker \/ Save \/ NextTranslate \/ NextListObject

Spec == Init /\ [][Next]_vars

NextSyncVersionRT ==
    \E v \in VersionInputsRT :
        /\ Len(calls) < MaxCalls
        /\ NumVersions(v.Key) < MaxVersions \/ HasVersion(v.Key, v.VersionId)
        /\ SyncVersion(v)
        /\ calls' = Append(calls, [op |-> "add_version", key |-> v.Key, rec |-> Stripped(v)])

NextSyncDeleteMarkerRT ==
    \E m \in MarkerInputsRT :
        /\ Len(calls) < MaxCalls
        /\ NumMarkers(m.Key) < MaxMarkers \/ HasMarker(m.Key, m.VersionId)
        /\ SyncDeleteMarker(m)
        /\ calls' = Append(calls, [op |-> "add_delete_marker", key |-> m.Key, rec |-> m])

\* a sync that saves, a listing, and uploads that load the cache file
NextRT == NextSyncVersionRT \/ NextSyncDeleteMarkerRT \/ Save \/ NextListObject \/ Load

SpecRT == Init /\ [][NextRT]_vars

NextSyncVersionDir ==
    \E v \in VersionInputsDir :
        /\ NumVersions(v.Key) < MaxVersions \/ HasVersion(v.Key, v.VersionId)
        /\ SyncVersion(v)
        /\ UNCHANGED calls

NextHasDirectory == \E n \in DirNames : HasDirectory(n)

\* a sync that saves, then an upload that asks for a directory
NextDir == NextSyncVersionDir \/ Save \/ NextHasDirectory

SpecDir == Init /\ [][NextDir]_vars

NextSyncVersionSv ==
    \E v \in VersionInputsSv :
        /\ NumVersions(v.Key) < MaxVersions \/ HasVersion(v.Key, v.VersionId)
        /\ SyncVersion(v)
        /\ UNCHANGED calls

NextSaveFails == \E n \in 0..Cardinality(Keys) : SaveFails(n)

\* commands one after another: each syncs and saves, the save may fail, and
\* uploads load the file in between
NextSv == NextSyncVersionSv \/ Save \/ NextSaveFails \/ StartSync \/ LoadFile

SpecSv == Init /\ [][NextSv]_vars

NextSyncVersionMal ==
    \E v \in VersionInputsMal :
        /\ Len(calls) < MaxCalls
        /\ calls' = Append(calls, [op |-> "add_version", key |-> v.Key, rec |-> Stripped(v)])
        /\ IF "VersionId" \in DOMAIN v THEN SyncVersion(v) ELSE SyncRaises("add_version", v)

NextSyncDeleteMarkerMal ==
    \E m \in MarkerInputsMal :
        /\ Len(calls) < MaxCalls
        /\ calls' = Append(calls, [op |-> "add_delete_marker", key |-> m.Key, rec |-> m])
        /\ IF "VersionId" \in DOMAIN m
           THEN SyncDeleteMarker(m)
           ELSE SyncRaises("add_delete_marker", m)

SaveMal == Serializable(vi) /\ Save

\* a sync over listings that may hold records without a field
NextMal == NextSyncVersionMal \/ NextSyncDeleteMarkerMal \/ SaveMal \/ SaveKeyError

SpecMal == Init /\ [][NextMal]_vars

NextSortedVersions == \E k \in Keys : SortedVersions(k)

NextGetLatestVersion == \E k \in Keys : GetLatestVersion(k)

\* a sync that saves, then the sorted versions or the latest one of a key
NextSort == NextSyncVersion \/ Save \/ NextSortedVersions \/ NextGetLatestVersion

SpecSort == Init /\ [][NextSort]_vars

\* ------------------------------------------------------------ properties
\* the instant a datetime denotes, a naive one read as UTC: seconds, and
\* microseconds compared after them
InstantSec(dt) == IF dt.tz = None THEN dt.sec ELSE dt.sec - dt.tz[1]

Earlier(a, b) ==
    \/ InstantSec(a) < InstantSec(b)
    \/ InstantSec(a) = InstantSec(b) /\ a.us < b.us

\* the records an object holds
StoredVersions(k) == {vi[k].versions[i] : i \in 1..Len(vi[k].versions)}

StoredMarkers(k) == {vi[k].delete_markers[i] : i \in 1..Len(vi[k].delete_markers)}

StoredIds(k) == {r.VersionId : r \in StoredVersions(k)}

\* the command has resolved a specifier on an object of the index
Translated == result.op = "translate" /\ result.key \in DOMAIN vi

\* C1: a specifier equal to a version_id of the object is returned unchanged,
\* also when it is a keyword, an integer or a date expression
C1_IdentityShortCircuit ==
    (Translated /\ result.spec \in StoredIds(result.key))
        => (result.ret = <<result.spec>> /\ result.exc = None)

C1_Witness ==
    /\ Translated
    /\ result.spec = "p"
    /\ "p" \in StoredIds(result.key)
    /\ Len(vi[result.key].versions) >= 2
    /\ result.ret = <<"p">>

\* C2: without a keyword among the version_ids, 'latest', 'last' and
\* 'newest' give the id of a record with the maximal last_modified; with a
\* single version 'latest', 'oldest' and position 0 all give its id
C2_LatestIsMaximal ==
    (Translated /\ StoredVersions(result.key) # {}
        /\ StoredIds(result.key) \cap Keywords = {})
    => /\ result.spec \in {"latest", "last", "newest"} =>
            \E r \in StoredVersions(result.key) :
                /\ result.ret = <<r.VersionId>>
                /\ \A o \in StoredVersions(result.key) :
                        ~Earlier(r.LastModified, o.LastModified)
       /\ (Cardinality(StoredVersions(result.key)) = 1
            /\ result.spec \in {"latest", "oldest", "0"}) =>
            \A r \in StoredVersions(result.key) : result.ret = <<r.VersionId>>

C2_Witness ==
    /\ Translated
    /\ result.spec = "latest"
    /\ StoredIds(result.key) \cap Keywords = {}
    /\ Len(vi[result.key].versions) = 3
    /\ Earlier(vi[result.key].versions[3].LastModified, vi[result.key].versions[1].LastModified)
    /\ result.ret = <<vi[result.key].versions[1].VersionId>>

\* the ids that can stand second to last when the records are put in
\* ascending order of last_modified
SecondToLastIds(k) ==
    {r.VersionId : r \in
        {r \in StoredVersions(k) :
            \E m \in StoredVersions(k) \ {r} :
                /\ ~Earlier(m.LastModified, r.LastModified)
                /\ \A o \in StoredVersions(k) \ {r, m} :
                        ~Earlier(r.LastModified, o.LastModified)}}

\* the answer C3 describes for previous / prev / p
PreviousAnswer ==
    /\ Cardinality(StoredVersions(result.key)) < 2 =>
            (result.ret = None /\ result.exc = None)
    /\ Cardinality(StoredVersions(result.key)) >= 2 =>
            \E id \in SecondToLastIds(result.key) : result.ret = <<id>>

\* C3 as stated: 'previous', 'prev' and 'p' give none below two versions and
\* the second to last version from two versions on
C3_Original ==
    (Translated /\ result.spec \in {"previous", "prev", "p"}) => PreviousAnswer

\* C3 amended: the same, for a specifier that is not itself a version_id of
\* the object
C3_Previous ==
    (Translated /\ result.spec \in {"previous", "prev", "p"}
        /\ result.spec \notin StoredIds(result.key))
    => PreviousAnswer

C3_Witness ==
    /\ Translated
    /\ result.spec = "prev"
    /\ Len(vi[result.key].versions) = 3
    /\ \E id \in SecondToLastIds(result.key) : result.ret = <<id>>
    /\ result.ret # <<sorted_versions(vi[result.key])[1].VersionId>>

\* C4: a specifier that is no version_id and no keyword and parses as a
\* date d gives the id of a version with the greatest last_modified
\* strictly before d, and none when no version is before d
C4_LatestBeforeDate ==
    (Translated /\ result.spec \notin StoredIds(result.key)
        /\ result.spec \notin Keywords /\ result.dt # None)
    => LET d == result.dt[1]
           before == {r \in StoredVersions(result.key) : Earlier(r.LastModified, d)}
       IN  /\ result.exc = None
           /\ before = {} => result.ret = None
           /\ before # {} =>
                \E r \in before :
                    /\ result.ret = <<r.VersionId>>
                    /\ \A o \in before : ~Earlier(r.LastModified, o.LastModified)

C4_Witness ==
    /\ Translated
    /\ result.spec = "2024-01-01 00:00:01.5"
    /\ result.dt # None
    /\ \E r \in StoredVersions(result.key) : r.LastModified = UtcTime(1, 500000)
    /\ \E r \in StoredVersions(result.key) :
            r.LastModified = UtcTime(1, 0) /\ result.ret = <<r.VersionId>>

\* the ids that can stand at zero-based position j when the records are
\* put in ascending order of last_modified
PositionIds(k, j) ==
    {r.VersionId : r \in
        {r \in StoredVersions(k) :
            /\ Cardinality({o \in StoredVersions(k) :
                    Earlier(o.LastModified, r.LastModified)}) <= j
            /\ j < Cardinality({o \in StoredVersions(k) :
                    ~Earlier(r.LastModified, o.LastModified)})}}

\* C5 as stated: the decimal text of an integer i that is no version_id
\* gives element i of the versions in ascending order (negative i counted
\* from the end) for -n <= i < n, and the out of range error otherwise
C5_Original ==
    (Translated /\ int(result.spec) # None /\ result.spec \notin StoredIds(result.key))
    => LET i == int(result.spec)[1]
           n == Cardinality(StoredVersions(result.key))
       IN  IF 0 - n <= i /\ i < n
           THEN /\ result.exc = None
                /\ \E id \in PositionIds(result.key, IF i < 0 THEN n + i ELSE i) :
                        result.ret = <<id>>
           ELSE /\ result.exc = <<"ValueError", OutOfRangeMsg>>
                /\ result.ret = None

\* C6: a specifier that is no version_id, no keyword, no date expression
\* and no integer raises the invalid specifier error, which is not the out
\* of range error; nothing is returned and the index is left as it was
C6_InvalidSpecifier ==
    [][(pc = "ready" /\ result'.op = "translate" /\ result'.key \in DOMAIN vi
            /\ result'.spec \notin StoredIds(result'.key)
            /\ result'.spec \notin Keywords
            /\ result'.dt = None
            /\ int(result'.spec) = None)
        => /\ result'.exc = <<"ValueError", InvalidSpecifierMsg>>
           /\ result'.exc # <<"ValueError", OutOfRangeMsg>>
           /\ result'.ret = None
           /\ vi' = vi]_vars

C6_Witness ==
    /\ Translated
    /\ result.spec = "zzz"
    /\ result.exc = <<"ValueError", InvalidSpecifierMsg>>
    /\ Len(vi[result.key].versions) >= 2
    /\ vi[result.key].delete_markers # <<>>

\* C7: VersionsIndex.translate_version raises the unknown key error for a
\* key that is not in the index, whatever the specifier; for a key of the
\* index it gives what the key's object gives; the index is left as it was
C7_UnknownKey ==
    [][(pc = "ready" /\ result'.op = "translate")
        => /\ result'.key \notin DOMAIN vi =>
                (result'.exc = <<"ValueError", KeyNotFoundMsg>> /\ result'.ret = None)
           /\ result'.key \in DOMAIN vi =>
                LET out == VersionedObject_translate_version(
                               vi[result'.key], result'.spec, result'.dt)
                IN  result'.ret = out.ret /\ result'.exc = out.exc
           /\ vi' = vi]_vars

C7_Witness ==
    /\ result.op = "translate"
    /\ result.key = KeyDB
    /\ KeyDB \notin DOMAIN vi
    /\ KeyA \in DOMAIN vi
    /\ result.spec \in StoredIds(KeyA)
    /\ result.exc = <<"ValueError", KeyNotFoundMsg>>

\* the calls of one kind made on a key, in order
CallsOn(op, k) == SelectSeq(calls, LAMBDA c : c.op = op /\ c.key = k)

\* of these, the record passed last for each version_id
LastPassed(op, k) ==
    LET cs == CallsOn(op, k) IN
    {cs[i].rec : i \in {i \in 1..Len(cs) :
        \A j \in (i + 1)..Len(cs) : cs[j].rec.VersionId # cs[i].rec.VersionId}}

IdsPassed(op, k) == {CallsOn(op, k)[i].rec.VersionId : i \in 1..Len(CallsOn(op, k))}

\* C8: versions has one entry for each distinct version_id passed to
\* add_version, the entry being the record passed last; add_version leaves
\* delete_markers alone (they are the records add_delete_marker was given)
C8_AddVersionCount ==
    \A k \in Keys :
        /\ NumVersions(k) = Cardinality(IdsPassed("add_version", k))
        /\ k \in DOMAIN vi =>
                /\ StoredVersions(k) = LastPassed("add_version", k)
                /\ StoredMarkers(k) = LastPassed("add_delete_marker", k)
                /\ Len(vi[k].delete_markers) = Cardinality(IdsPassed("add_delete_marker", k))

C8_Witness ==
    \E i, j \in 1..Len(calls) :
        /\ i < j
        /\ calls[i].op = "add_version" /\ calls[j].op = "add_version"
        /\ calls[i].key = calls[j].key
        /\ calls[i].rec.VersionId = calls[j].rec.VersionId
        /\ calls[i].rec # calls[j].rec
        /\ vi[calls[i].key].versions = <<calls[j].rec>>
        /\ calls[1].op = "add_delete_marker" /\ calls[1].key = calls[i].key
        /\ vi[calls[i].key].delete_markers = <<calls[1].rec>>

\* C9: is_deleted() is true exactly when a record now held in
\* delete_markers (the one passed last for its version_id) has IsLatest
C9_IsDeleted ==
    result.op = "is_deleted" =>
        result.ret = <<\E r \in LastPassed("add_delete_marker", result.key) : r.IsLatest>>

C9_Witness ==
    /\ result.op = "is_deleted"
    /\ result.ret = <<FALSE>>
    /\ vi[result.key].versions # <<>>
    /\ \E i, j \in 1..Len(calls) :
        /\ i < j
        /\ calls[i].op = "add_delete_marker" /\ calls[j].op = "add_delete_marker"
        /\ calls[i].key = result.key /\ calls[j].key = result.key
        /\ calls[i].rec.VersionId = calls[j].rec.VersionId
        /\ calls[i].rec.IsLatest /\ ~calls[j].rec.IsLatest

\* C10: load() into a new index after save() gives the keys that were
\* saved and, for each key, the same version and delete marker records
C10_RoundTrip ==
    [][(fresh' # fresh /\ cache # None)
        => /\ DOMAIN fresh'[1] = DOMAIN vi
           /\ \A k \in DOMAIN vi :
                /\ fresh'[1][k].key = k
                /\ fresh'[1][k].versions = vi[k].versions
                /\ fresh'[1][k].delete_markers = vi[k].delete_markers]_vars

C10_Witness ==
    /\ fresh # None
    /\ cache # None
    /\ KeyA \in DOMAIN fresh[1]
    /\ Len(fresh[1][KeyA].versions) = 2
    /\ \E i \in 1..2 : fresh[1][KeyA].versions[i].LastModified.us # 0
    /\ \E i \in 1..Len(fresh[1][KeyA].delete_markers) : fresh[1][KeyA].delete_markers[i].IsLatest

\* ------------------------------------------------------------------- C11
\* key begins with the characters of p, compared one by one
BeginsWith(key, p) == Len(p) <= Len(key) /\ \A i \in 1..Len(p) : key[i] = p[i]

AskedDirectory == result.op = "has_directory" /\ fresh # None

\* C11 as stated: has_directory(name) is true exactly when some key of the
\* index starts with name followed by "/", for every name, one that already
\* ends with "/" included.
C11_Original ==
    AskedDirectory =>
        (result.ret[1] <=> \E key \in DOMAIN fresh[1] : BeginsWith(key, result.key \o <<"/">>))

\* C11, amended: has_directory(name) is true exactly when some key of the
\* index starts with name followed by "/", or name already ends with "/" and
\* some key starts with name; the index the upload loaded is as the cache
\* file gives it, before and after the question.
C11_HasDirectory ==
    AskedDirectory =>
        /\ result.ret[1] <=>
              \E key \in DOMAIN fresh[1] :
                  \/ BeginsWith(key, result.key \o <<"/">>)
                  \/ /\ result.key # <<>>
                     /\ result.key[Len(result.key)] = "/"
                     /\ BeginsWith(key, result.key)
        /\ DOMAIN fresh[1] = DOMAIN cache[1]
        /\ \A k \in DOMAIN fresh[1] : serialize(fresh[1][k]) = cache[1][k]

\* the name "d" was asked with the keys "d", "db" and "d/b" in the index, and
\* the answer was true
C11_Witness ==
    /\ AskedDirectory
    /\ result.key = <<"d">>
    /\ {<<"d">>, <<"d", "b">>, KeyDB} \subseteq DOMAIN fresh[1]
    /\ result.ret = <<TRUE>>

\* ------------------------------------------------------------------- C12
\* C12: save() is all-or-nothing: when save() fails, the cache file still
\* holds the complete previous snapshot (so a later load() gives the index
\* saved before), and no cut file is ever there to be read.
C12_Original ==
    [][(pc = "sync" /\ pc' = "failed" /\ cache # None /\ json_load(cache).exc = None)
          => (cache' = cache /\ json_load(cache').exc = None)]_vars

\* ------------------------------------------------------------------- C13
Malformed(rec) == ~({"VersionId", "LastModified"} \subseteq DOMAIN rec)

AllStored ==
    UNION {{vi[k].versions[i] : i \in 1..Len(vi[k].versions)}
           \cup {vi[k].delete_markers[i] : i \in 1..Len(vi[k].delete_markers)} :
           k \in DOMAIN vi}

\* C13: a record without VersionId or without LastModified is rejected with
\* an error when it is added and leaves object and index as they were, so
\* every stored record has a version id and a last-modified time.
C13_Original ==
    /\ \A r \in AllStored : ~Malformed(r)
    /\ \A i \in 1..Len(calls) :
          Malformed(calls[i].rec) =>
              /\ i = Len(calls)
              /\ pc = "failed"
              /\ result.op = calls[i].op
              /\ result.exc # None

\* ------------------------------------------------------------------- C14
\* the place of a version id in the order of strings (by code point)
IdRank(id) ==
    CASE id = "0" -> 1
      [] id = "2024-01-01 00:00:02" -> 2
      [] id = "p" -> 3
      [] id = "v1" -> 4

SameInstant(a, b) == ~Earlier(a, b) /\ ~Earlier(b, a)

\* C14: sorted_versions() returns every stored version exactly once,
\* ascending by last_modified, and versions of equal last_modified in the
\* order of their version ids, whatever the order they were added in.
C14_Original ==
    (result.op = "sorted_versions") =>
        LET out == result.ret[1] IN
        /\ Len(out) = Len(vi[result.key].versions)
        /\ {out[i] : i \in 1..Len(out)} = StoredVersions(result.key)
        /\ \A i, j \in 1..Len(out) :
              i < j =>
                  \/ Earlier(out[i].LastModified, out[j].LastModified)
                  \/ /\ SameInstant(out[i].LastModified, out[j].LastModified)
                     /\ IdRank(out[i].VersionId) < IdRank(out[j].VersionId)

\* ------------------------------------------------------------------- C15
\* C15: for an object with at least one version, the record that
\* get_latest_version() returns has the version id that
\* translate_version('latest') returns, also when several versions share the
\* greatest last_modified.
C15_Original ==
    (result.op = "get_latest_version" /\ vi[result.key].versions # <<>>) =>
        /\ result.ret # None
        /\ <<result.ret[1].VersionId>> =
              VersionsIndex_translate_version(vi, result.key, "latest", None).ret

====
